---- MODULE Spec2Model ----
(***************************************************************************)
(* The signaling relay of phosaic (src/server/server.js): the two          *)
(* identifier tables, the per-connection message handler and the close     *)
(* handler, with the frames each connection receives (Spec); and the       *)
(* subordinate page (src/subordinate/script.js): the fullscreen gate, the  *)
(* geometry capture, the signaling channel and the offer handling          *)
(* (PageSpec).                                                             *)
(***************************************************************************)
EXTENDS Naturals, Sequences, FiniteSets, TLC

\* ------------------------------------------------------------------ bounds

\* Number of events (connections, frames, closes) the relay handles in a run.
MaxEvents == 6

\* Number of events (user, browser, network, resumed awaits) of one page run.
MaxPageSteps == 11

\* ------------------------------------------------------------- value sets

\* The connection objects (ws) the server can be handed, in order of arrival.
ConnOrder == <<"w1", "w2", "w3">>

Conns == {ConnOrder[i] : i \in 1..Len(ConnOrder)}

\* What Map.get returns for a missing key.
NoConn == "none"

\* JavaScript's undefined: an absent field of a parsed frame, ws.id before any
\* register message.
Undefined == "undefined"

\* The strings generateUniqueId can return: Math.random() is not checked
\* against the tables, so every string of the space can come out at any call.
GeneratedIds == {"x", "y"}

\* The values data.id can take in a parsed frame.
Keys == GeneratedIds \cup {Undefined}

\* Opaque offer / answer / candidate bodies.
Payloads == {"p1", "p2"}

\* ----------------------------------------------------------------- frames

\* A parsed inbound frame, as far as the relay reads it: data.type, data.id and
\* the body (data.offer, data.answer or data.candidate).
Frame(type, id, payload) == [type |-> type, id |-> id, payload |-> payload]

RegisterSubordinateFrames == {Frame("register-subordinate", Undefined, Undefined)}

RegisterCoordinatorFrames == {Frame("register-coordinator", k, Undefined) : k \in Keys}

OfferFrames == {Frame("offer", k, p) : k \in Keys, p \in Payloads}

AnswerFrames == {Frame("answer", k, p) : k \in Keys, p \in Payloads}

IceCandidateFrames == {Frame("ice-candidate", k, p) : k \in Keys, p \in Payloads}

UnknownFrames == {Frame("unknown", Undefined, Undefined)}

NoData == Frame("none", Undefined, Undefined)

\* The object the relay stringifies for a forwarded offer, answer or candidate:
\* the type and the body, and no other key (id and sourceId are absent).
Forwarded(type, payload) ==
    [type |-> type, id |-> Undefined, sourceId |-> Undefined, payload |-> payload]

\* The reply to register-subordinate.
Registered(id) ==
    [type |-> "registered", id |-> id, sourceId |-> Undefined, payload |-> Undefined]

\* ------------------------------------------------------------------ state

VARIABLES
    subordinates,   \* Map id -> ws (NoConn: no entry)
    coordinators,   \* Map id -> ws (NoConn: no entry)
    wsId,           \* ws.id of every connection
    readyState,     \* "unopened" | "open" | "closed" per connection
    inbox,          \* frames delivered to each connection, in order
    last,           \* the event handled last and the send calls it made
    relayUp,        \* FALSE once an exception left a handler
    nEvents,        \* events handled so far
    departed,       \* history: ids a subordinate held when it closed
    released,       \* history: those of departed that nobody registered under since
    iceSeen,        \* history: the ice-candidate frames handled while their target was open
    page,           \* the subordinate page: its globals, its environment, its pending awaits
    obs             \* history of the page: what it did, in order

relayVars ==
    <<subordinates, coordinators, wsId, readyState, inbox, last, relayUp, nEvents,
      departed, released, iceSeen>>

pageVars == <<page, obs>>

vars == <<relayVars, pageVars>>

\* ------------------------------------------------------------ page values

\* null, and a variable declared with no value.
Null == "null"

\* window.innerWidth x window.innerHeight, as the environment can report them.
Sizes == {"1280x720", "1920x1080"}

\* The sourceId an inbound offer can carry: two coordinators.
SourceIds == {"c1", "c2"}

\* No RTCPeerConnection yet: peerConnection is undefined.
NoPc == 0

\* The page after the script has been evaluated and before the load event.
InitPage ==
    [ loaded |-> FALSE,
      fullscreen |-> FALSE,          \* isFullscreen()
      windowSize |-> "1280x720",     \* window.innerWidth, window.innerHeight
      promptActive |-> FALSE,        \* prompt.onclick / prompt.ontouchstart are set
      refreshHandler |-> FALSE,      \* refreshHandler is set
      displaySize |-> Null,
      ws |-> Null,                   \* null | "connecting" | "open" | "closed"
      myId |-> Undefined,
      coordinatorId |-> Undefined,
      peerConnection |-> NoPc,       \* the RTCPeerConnection the global refers to
      nPc |-> 0,                     \* RTCPeerConnection objects created
      remoteSet |-> {},              \* those with a remote description
      localSet |-> {},               \* those with a local description
      attempts |-> 0,                \* handleInteraction calls awaiting attemptFullscreen
      listening |-> 0,               \* waitForFullscreenComplete calls awaiting the event
      frames |-> 0,                  \* ... awaiting the two animation frames
      timers |-> 0,                  \* handleFullscreenComplete calls awaiting the timeout
      offers |-> {},                 \* handleOffer calls awaiting a negotiation step
      uncaught |-> FALSE ]           \* an exception or rejection nobody caught

InitObs ==
    [ steps |-> 0,
      ev |-> "none",                 \* the event handled last
      sent |-> <<>>,                 \* the frames given to ws.send, in order
      sockets |-> 0,                 \* WebSocket objects created
      geometry |-> <<>>,             \* the values written to displaySize, in order
      offersSeen |-> <<>>,           \* the sourceId of every offer received, in order
      failed |-> {},                 \* the offers whose negotiation failed
      answered |-> {} ]              \* the offers whose negotiation succeeded

Init ==
    /\ subordinates = [k \in Keys |-> NoConn]
    /\ coordinators = [k \in Keys |-> NoConn]
    /\ wsId = [w \in Conns |-> Undefined]
    /\ readyState = [w \in Conns |-> "unopened"]
    /\ inbox = [w \in Conns |-> <<>>]
    /\ last = [ev |-> "none", ws |-> NoConn, data |-> NoData, sends |-> <<>>]
    /\ relayUp = TRUE
    /\ nEvents = 0
    /\ departed = {}
    /\ released = {}
    /\ iceSeen = <<>>
    /\ page = InitPage
    /\ obs = InitObs

\* ---------------------------------------------------------------- helpers

Has(map, k) == map[k] # NoConn

Delete(map, k) == [map EXCEPT ![k] = NoConn]

\* ws.send(JSON.stringify(msg)): the frame reaches the peer if the socket is
\* open; on a closed socket the call does nothing.
Send(box, to, msg) ==
    IF readyState[to] = "open" THEN [box EXCEPT ![to] = Append(@, msg)] ELSE box

\* One call of send on a connection object.
Call(to, msg) == [to |-> to, msg |-> msg]

\* The effect of a handler's send calls, in program order, on the peers' inboxes.
RECURSIVE Deliver(_, _)
Deliver(box, calls) ==
    IF calls = <<>> THEN box
    ELSE Deliver(Send(box, Head(calls).to, Head(calls).msg), Tail(calls))

\* The open connection registered under an identifier, a subordinate before a
\* coordinator (NoConn: none, or a closed one). Used by the history variables.
LiveHolder(k) ==
    LET h == IF subordinates[k] # NoConn THEN subordinates[k] ELSE coordinators[k]
    IN IF h # NoConn /\ readyState[h] = "open" THEN h ELSE NoConn

Handled(ev, ws, data, sends) ==
    /\ last' = [ev |-> ev, ws |-> ws, data |-> data, sends |-> sends]
    /\ nEvents' = nEvents + 1
    /\ UNCHANGED pageVars

CanHandle(ws) ==
    /\ relayUp
    /\ nEvents < MaxEvents
    /\ readyState[ws] = "open"

\* ---------------------------------------------------------------- actions

\* wss.on("connection"): a new connection object, nothing registered.
Connect(ws) ==
    /\ relayUp
    /\ nEvents < MaxEvents
    /\ readyState[ws] = "unopened"
    /\ \A i \in 1..Len(ConnOrder) :
           ConnOrder[i] = ws =>
               \A j \in 1..(i - 1) : readyState[ConnOrder[j]] # "unopened"
    /\ readyState' = [readyState EXCEPT ![ws] = "open"]
    /\ Handled("connection", ws, NoData, <<>>)
    /\ UNCHANGED <<subordinates, coordinators, wsId, inbox, relayUp,
                   departed, released, iceSeen>>

\* case "register-subordinate": a generated id, stored on the connection and in
\* the subordinate table, and sent back.
\* Mutant: a registering subordinate is also handed an offer kept for it.
RegisterSubordinateSendsKept(ws, id) ==
    <<Call(ws, Registered(id)), Call(ws, Forwarded("offer", "p1"))>>

RegisterSubordinateSends(ws, id) == <<Call(ws, Registered(id))>>

RegisterSubordinate(ws, data) ==
    /\ CanHandle(ws)
    /\ \E id \in GeneratedIds :
           /\ wsId' = [wsId EXCEPT ![ws] = id]
           /\ subordinates' = [subordinates EXCEPT ![id] = ws]
           /\ inbox' = Deliver(inbox, RegisterSubordinateSends(ws, id))
           /\ Handled("message", ws, data, RegisterSubordinateSends(ws, id))
           /\ released' = released \ {id}
    /\ UNCHANGED <<coordinators, readyState, relayUp, departed, iceSeen>>

\* Mutant: the identifier already recorded on the connection is kept.
RegisterCoordinatorIdKept(ws, data) == wsId[ws]

\* case "register-coordinator": the id is the frame's own, and nothing is sent.
RegisterCoordinatorId(ws, data) == data.id

RegisterCoordinatorSends(ws, id) == <<>>

RegisterCoordinator(ws, data) ==
    /\ CanHandle(ws)
    /\ LET id == RegisterCoordinatorId(ws, data) IN
           /\ wsId' = [wsId EXCEPT ![ws] = id]
           /\ coordinators' = [coordinators EXCEPT ![id] = ws]
           /\ inbox' = Deliver(inbox, RegisterCoordinatorSends(ws, id))
           /\ Handled("message", ws, data, RegisterCoordinatorSends(ws, id))
           /\ released' = released \ {id}
    /\ UNCHANGED <<subordinates, readyState, relayUp, departed, iceSeen>>

\* Mutant: an offer is looked up in the coordinator table when the subordinate
\* table has no entry.
OfferTargetAnyRole(data) ==
    IF Has(subordinates, data.id) THEN subordinates[data.id] ELSE coordinators[data.id]

\* Mutant: an answer is looked up in the subordinate table first.
AnswerTargetAnyRole(data) ==
    IF Has(subordinates, data.id) THEN subordinates[data.id] ELSE coordinators[data.id]

\* The lookups of the three routing cases.
OfferTarget(data) == subordinates[data.id]

AnswerTarget(data) == coordinators[data.id]

IceCandidateTarget(data) ==
    IF Has(subordinates, data.id) THEN subordinates[data.id] ELSE coordinators[data.id]

\* The send calls of a routing case: one to the target if the lookup found
\* one, none otherwise.
OfferSends(data) ==
    IF OfferTarget(data) # NoConn
    THEN <<Call(OfferTarget(data), Forwarded("offer", data.payload))>>
    ELSE <<>>

AnswerSends(data) ==
    IF AnswerTarget(data) # NoConn
    THEN <<Call(AnswerTarget(data), Forwarded("answer", data.payload))>>
    ELSE <<>>

\* Mutant: a candidate goes to the entries of both tables.
IceCandidateSendsBothTables(data) ==
    (IF Has(subordinates, data.id)
     THEN <<Call(subordinates[data.id], Forwarded("ice-candidate", data.payload))>>
     ELSE <<>>)
    \o (IF Has(coordinators, data.id)
        THEN <<Call(coordinators[data.id], Forwarded("ice-candidate", data.payload))>>
        ELSE <<>>)

IceCandidateSends(data) ==
    IF IceCandidateTarget(data) # NoConn
    THEN <<Call(IceCandidateTarget(data), Forwarded("ice-candidate", data.payload))>>
    ELSE <<>>

Offer(ws, data) ==
    /\ CanHandle(ws)
    /\ inbox' = Deliver(inbox, OfferSends(data))
    /\ Handled("message", ws, data, OfferSends(data))
    /\ UNCHANGED <<subordinates, coordinators, wsId, readyState, relayUp,
                   departed, released, iceSeen>>

Answer(ws, data) ==
    /\ CanHandle(ws)
    /\ inbox' = Deliver(inbox, AnswerSends(data))
    /\ Handled("message", ws, data, AnswerSends(data))
    /\ UNCHANGED <<subordinates, coordinators, wsId, readyState, relayUp,
                   departed, released, iceSeen>>

IceCandidate(ws, data) ==
    /\ CanHandle(ws)
    /\ inbox' = Deliver(inbox, IceCandidateSends(data))
    /\ Handled("message", ws, data, IceCandidateSends(data))
    /\ iceSeen' =
           IF LiveHolder(data.id) # NoConn
           THEN Append(iceSeen, [id |-> data.id, candidate |-> data.payload,
                                 target |-> LiveHolder(data.id)])
           ELSE iceSeen
    /\ UNCHANGED <<subordinates, coordinators, wsId, readyState, relayUp,
                   departed, released>>

\* default: an unknown type is logged and nothing else happens.
UnknownType(ws, data) ==
    /\ CanHandle(ws)
    /\ Handled("message", ws, data, <<>>)
    /\ UNCHANGED <<subordinates, coordinators, wsId, readyState, inbox, relayUp,
                   departed, released, iceSeen>>

\* A frame JSON.parse rejects (or that parses to null): the exception leaves the
\* handler uncaught and ends the process.
Malformed(ws) ==
    /\ CanHandle(ws)
    /\ relayUp' = FALSE
    /\ Handled("malformed", ws, NoData, <<>>)
    /\ UNCHANGED <<subordinates, coordinators, wsId, readyState, inbox,
                   departed, released, iceSeen>>

\* ws.on("close"): whatever each table holds under ws.id is deleted.
CloseSubordinates(ws) ==
    IF Has(subordinates, wsId[ws]) THEN Delete(subordinates, wsId[ws]) ELSE subordinates

\* Mutant: the close handler leaves the coordinator table alone.
CloseCoordinatorsKept(ws) == coordinators

CloseCoordinators(ws) ==
    IF Has(coordinators, wsId[ws]) THEN Delete(coordinators, wsId[ws]) ELSE coordinators

Close(ws) ==
    /\ CanHandle(ws)
    /\ readyState' = [readyState EXCEPT ![ws] = "closed"]
    /\ subordinates' = CloseSubordinates(ws)
    /\ coordinators' = CloseCoordinators(ws)
    /\ Handled("close", ws, NoData, <<>>)
    /\ departed' = departed \cup {k \in Keys : subordinates[k] = ws}
    /\ released' = released \cup {k \in Keys : subordinates[k] = ws}
    /\ UNCHANGED <<wsId, inbox, relayUp, iceSeen>>

Next ==
    \E ws \in Conns :
        \/ Connect(ws)
        \/ \E data \in RegisterSubordinateFrames : RegisterSubordinate(ws, data)
        \/ \E data \in RegisterCoordinatorFrames : RegisterCoordinator(ws, data)
        \/ \E data \in OfferFrames : Offer(ws, data)
        \/ \E data \in AnswerFrames : Answer(ws, data)
        \/ \E data \in IceCandidateFrames : IceCandidate(ws, data)
        \/ \E data \in UnknownFrames : UnknownType(ws, data)
        \/ Malformed(ws)
        \/ Close(ws)

Spec == Init /\ [][Next]_vars

\* ---------------------------------------------------- the subordinate page

\* A frame the page gives to ws.send.  JSON.stringify leaves out a property
\* whose value is undefined.  offer is history: the offer whose handling
\* sent the frame (0 when none did).
PageFrame(type, targetId, sourceId, size, offer) ==
    [type |-> type, targetId |-> targetId, sourceId |-> sourceId,
     size |-> size, offer |-> offer]

\* One handled event of the page: the relay is a different process.
PageStep(ev, pg, ob) ==
    /\ obs.steps < MaxPageSteps
    /\ page' = pg
    /\ obs' = [ob EXCEPT !.steps = obs.steps + 1, !.ev = ev]
    /\ UNCHANGED relayVars

connectWebSocketUnguarded(pg) ==
    IF pg.displaySize = Null THEN pg ELSE [pg EXCEPT !.ws = "connecting"]

connectWebSocketAgain(pg) ==
    IF pg.ws \notin {Null, "closed"} THEN pg
    ELSE IF pg.displaySize = Null THEN pg
    ELSE [pg EXCEPT !.ws = "connecting"]

\* connectWebSocket(): nothing when a socket exists or no geometry does.
connectWebSocket(pg) ==
    IF pg.ws # Null THEN pg
    ELSE IF pg.displaySize = Null THEN pg
    ELSE [pg EXCEPT !.ws = "connecting"]

\* The sockets connectWebSocket() creates.
SocketsCreated(pg) == IF connectWebSocket(pg).ws = pg.ws THEN 0 ELSE 1

RegisterSizeOfWindow(pg) == pg.windowSize

\* The width and height ws.onopen puts in the registration.
RegisterSize(pg) == pg.displaySize

\* waitForFullscreenComplete(): two animation frames when already
\* fullscreen, a one-shot fullscreenchange listener otherwise.
waitForFullscreenComplete(pg) ==
    IF pg.fullscreen
    THEN [pg EXCEPT !.frames = @ + 1]
    ELSE [pg EXCEPT !.listening = @ + 1]

\* hideFullscreenPrompt()
hideFullscreenPrompt(pg) == [pg EXCEPT !.promptActive = FALSE]

\* handleFullscreenComplete() up to its await of the 200 ms timeout.
handleFullscreenComplete(pg) ==
    [hideFullscreenPrompt(pg) EXCEPT !.timers = @ + 1]

\* The load event: setQRCodeSize(); checkFullscreenAndConnect().
Load ==
    /\ ~page.loaded
    /\ LET pg == [page EXCEPT !.loaded = TRUE]
       IN  PageStep("load",
                    IF pg.fullscreen
                    THEN waitForFullscreenComplete(hideFullscreenPrompt(pg))
                    ELSE [pg EXCEPT !.promptActive = TRUE],
                    obs)

\* prompt.onclick or prompt.ontouchstart: handleInteraction() up to its
\* await of attemptFullscreen().  One tap on a touch screen raises both.
Interaction ==
    /\ page.promptActive
    /\ PageStep("interaction", [page EXCEPT !.attempts = @ + 1], obs)

\* attemptFullscreen() settles; handleInteraction() goes on to
\* waitForFullscreenComplete(), or catches the rejection.
AttemptSettled(ok) ==
    /\ page.attempts > 0
    /\ LET pg == [page EXCEPT !.attempts = @ - 1]
       IN  PageStep("attempt", IF ok THEN waitForFullscreenComplete(pg) ELSE pg, obs)

\* handleFullscreenChange(), the listener registered first.
handleFullscreenChange(pg) ==
    IF pg.fullscreen
    THEN IF pg.displaySize = Null
         THEN waitForFullscreenComplete(pg)
         ELSE [pg EXCEPT !.refreshHandler = TRUE]
    ELSE [pg EXCEPT !.refreshHandler = FALSE]

\* The one-shot listeners of waitForFullscreenComplete(): each removes
\* itself, and resolves (after two animation frames) only when the document
\* is fullscreen at this event.
FullscreenListeners(pg) ==
    [pg EXCEPT !.listening = 0,
               !.frames = IF pg.fullscreen THEN @ + pg.listening ELSE @]

\* A fullscreenchange event: the document entered or left fullscreen.
FullscreenChange(b) ==
    /\ b # page.fullscreen
    /\ PageStep("fullscreenchange",
                FullscreenListeners(handleFullscreenChange([page EXCEPT !.fullscreen = b])),
                obs)

\* The second animation frame of one waitForFullscreenComplete() call: its
\* promise resolves and the caller goes on to handleFullscreenComplete().
AnimationFrames ==
    /\ page.frames > 0
    /\ PageStep("frames", handleFullscreenComplete([page EXCEPT !.frames = @ - 1]), obs)

\* The 200 ms timeout of one handleFullscreenComplete() call: displaySize is
\* assigned, then enableRefreshOnTap() and connectWebSocket().
Timeout ==
    /\ page.timers > 0
    /\ LET pg == [page EXCEPT !.timers = @ - 1,
                              !.displaySize = page.windowSize,
                              !.refreshHandler = TRUE]
       IN  PageStep("timeout", connectWebSocket(pg),
                    [obs EXCEPT !.geometry = Append(@, page.windowSize),
                                !.sockets = @ + SocketsCreated(pg)])

\* The window changes size (the fullscreen transition, a rotation).
Resize(size) ==
    /\ size # page.windowSize
    /\ PageStep("resize", [page EXCEPT !.windowSize = size], obs)

\* ws.onopen: the registration is sent.
WsOpen ==
    /\ page.ws = "connecting"
    /\ PageStep("open", [page EXCEPT !.ws = "open"],
                [obs EXCEPT !.sent = Append(@,
                    PageFrame("register-subordinate", Undefined, Undefined,
                              RegisterSize(page), 0))])

\* ws.onclose: logged; the variable ws keeps the closed socket.
WsClose ==
    /\ page.ws \in {"connecting", "open"}
    /\ PageStep("close", [page EXCEPT !.ws = "closed"], obs)

\* A tap while fullscreen with refreshHandler installed: exitFullscreen(),
\* then window.location.reload(); the script starts over.
Refresh ==
    /\ page.refreshHandler
    /\ page.fullscreen
    /\ PageStep("reload", [InitPage EXCEPT !.windowSize = page.windowSize], InitObs)

\* ws.send(frame): a browser socket that is closing or closed discards it.
Transmit(pg, ob, frame) ==
    IF pg.ws = "open" THEN [ob EXCEPT !.sent = Append(@, frame)] ELSE ob

\* case "registered": the relay answers the one registration of a socket.
RegisteredMsg(id) ==
    /\ page.ws = "open"
    /\ page.myId = Undefined
    /\ PageStep("registered", [page EXCEPT !.myId = id], obs)

\* case "offer": the value coordinatorId takes.
OfferSource(pg, sourceId) == sourceId

\* A handleOffer(offer) call that awaits: n is the offer (in arrival
\* order), pc the RTCPeerConnection it created, stage the awaited step and
\* on the RTCPeerConnection that step was called on.
OfferTask(n, pc, stage, on) == [n |-> n, pc |-> pc, stage |-> stage, on |-> on]

\* case "offer": coordinatorId is assigned, then handleOffer() replaces the
\* global peerConnection and awaits setRemoteDescription().
OfferMsg(sourceId) ==
    /\ page.ws = "open"
    /\ LET n == Len(obs.offersSeen) + 1
           pc == page.nPc + 1
       IN  PageStep("offer",
                    [page EXCEPT !.coordinatorId = OfferSource(page, sourceId),
                                 !.nPc = pc,
                                 !.peerConnection = pc,
                                 !.offers = @ \cup {OfferTask(n, pc, "remote", pc)}],
                    [obs EXCEPT !.offersSeen = Append(@, sourceId)])

OfferFailureAnswers(pg, ob, t) ==
    Transmit(pg, [ob EXCEPT !.failed = @ \cup {t.n}],
             PageFrame("answer", pg.coordinatorId, pg.myId, Null, t.n))

\* catch (error) of handleOffer(): logged, nothing sent.
OfferFailure(pg, ob, t) == [ob EXCEPT !.failed = @ \cup {t.n}]

\* The steps of one RTCPeerConnection run in the order they were called.
Settles(t) ==
    /\ t \in page.offers
    /\ t.stage # "remote" =>
           ~\E u \in page.offers : u.stage = "remote" /\ u.on = t.on

\* An awaited step of handleOffer() rejects.
NegotiationFails(t) ==
    /\ Settles(t)
    /\ LET pg == [page EXCEPT !.offers = @ \ {t}]
       IN  PageStep("failed", pg, OfferFailure(pg, obs, t))

\* setRemoteDescription() resolves; createAnswer() is called on the global
\* peerConnection.
RemoteDescriptionSet(t) ==
    /\ Settles(t)
    /\ t.stage = "remote"
    /\ PageStep("remote",
                [page EXCEPT !.remoteSet = @ \cup {t.on},
                             !.offers = (@ \ {t}) \cup
                                 {OfferTask(t.n, t.pc, "create", page.peerConnection)}],
                obs)

\* createAnswer() resolves, which takes a remote description;
\* setLocalDescription() is called on the global peerConnection.
AnswerCreated(t) ==
    /\ Settles(t)
    /\ t.stage = "create"
    /\ t.on \in page.remoteSet
    /\ PageStep("create",
                [page EXCEPT !.offers = (@ \ {t}) \cup
                                 {OfferTask(t.n, t.pc, "local", page.peerConnection)}],
                obs)

\* setLocalDescription() resolves; the answer is sent.
LocalDescriptionSet(t) ==
    /\ Settles(t)
    /\ t.stage = "local"
    /\ t.on \in page.remoteSet
    /\ LET pg == [page EXCEPT !.localSet = @ \cup {t.on}, !.offers = @ \ {t}]
       IN  PageStep("answer", pg,
                    Transmit(pg, [obs EXCEPT !.answered = @ \cup {t.n}],
                             PageFrame("answer", pg.coordinatorId, pg.myId, Null, t.n)))

\* peerConnection.onicecandidate of a connection that has its local
\* description and gathers candidates.
LocalCandidate(pc) ==
    /\ pc \in page.localSet
    /\ PageStep("candidate", page,
                Transmit(page, obs,
                         PageFrame("ice-candidate", page.coordinatorId, Undefined, Null, 0)))

IceCandidateFailureUncaught(pg) == [pg EXCEPT !.uncaught = TRUE]

\* catch (e) around addIceCandidate(): logged.
IceCandidateFailure(pg) == pg

\* case "ice-candidate": skipped without a peerConnection; otherwise
\* addIceCandidate() is awaited inside try/catch.
IceCandidateMsg(ok) ==
    /\ page.ws = "open"
    /\ PageStep("ice-candidate",
                IF page.peerConnection = NoPc \/ ok THEN page ELSE IceCandidateFailure(page),
                obs)

\* default: logged.
UnknownMsg ==
    /\ page.ws = "open"
    /\ PageStep("unknown", page, obs)

PageNext ==
    \/ Load
    \/ Interaction
    \/ \E ok \in BOOLEAN : AttemptSettled(ok)
    \/ \E b \in BOOLEAN : FullscreenChange(b)
    \/ AnimationFrames
    \/ Timeout
    \/ \E size \in Sizes : Resize(size)
    \/ WsOpen
    \/ WsClose
    \/ Refresh
    \/ \E id \in GeneratedIds : RegisteredMsg(id)
    \/ \E sourceId \in SourceIds : OfferMsg(sourceId)
    \/ \E t \in page.offers : NegotiationFails(t)
    \/ \E t \in page.offers : RemoteDescriptionSet(t)
    \/ \E t \in page.offers : AnswerCreated(t)
    \/ \E t \in page.offers : LocalDescriptionSet(t)
    \/ \E pc \in page.localSet : LocalCandidate(pc)
    \/ \E ok \in BOOLEAN : IceCandidateMsg(ok)
    \/ UnknownMsg

PageSpec == Init /\ [][PageNext]_vars

\* ----------------------------------------------------------------- claims

\* The event handled last is a frame of the given type.
IsMsg(type) == last.ev = "message" /\ last.data.type = type

\* The step being taken handles a frame of the given type.
IsMsgStep(type) == last'.ev = "message" /\ last'.data.type = type

\* The connection is registered as a coordinator under its own ws.id.
IsCoordinator(ws) == coordinators[wsId[ws]] = ws

\* The connection is registered as a subordinate under its own ws.id.
IsSubordinate(ws) == subordinates[wsId[ws]] = ws

\* C1. Offer round-trip: when the relay handles an offer from a connection
\* registered as coordinator C, addressed to an identifier X of the subordinate
\* table, it makes exactly one send, to the connection registered as subordinate
\* X, of an offer that carries sourceId = C and the payload that was sent.
C1_OfferRoundTrip ==
    (IsMsg("offer") /\ IsCoordinator(last.ws) /\ Has(subordinates, last.data.id)) =>
        /\ Len(last.sends) = 1
        /\ last.sends[1].to = subordinates[last.data.id]
        /\ last.sends[1].msg.type = "offer"
        /\ last.sends[1].msg.sourceId = wsId[last.ws]
        /\ last.sends[1].msg.payload = last.data.payload

\* C2. Identifier freshness: the identifier assigned while a register-subordinate
\* frame is handled is not, at that moment, a key of the subordinate table that
\* belongs to another open connection.
C2_IdentifierFresh ==
    [][IsMsgStep("register-subordinate") =>
           LET id == wsId'[last'.ws] IN
               ~(/\ Has(subordinates, id)
                 /\ subordinates[id] # last'.ws
                 /\ readyState[subordinates[id]] = "open")]_vars

\* C3. Unregister on disconnect: once the close of a connection has been
\* handled no entry of either table maps to it, and no offer, answer or
\* ice-candidate handled afterwards makes a send to a closed connection.
C3_UnregisterOnClose ==
    /\ last.ev = "close" =>
           \A k \in Keys : subordinates[k] # last.ws /\ coordinators[k] # last.ws
    /\ last.ev = "message" =>
           \A i \in 1..Len(last.sends) : readyState[last.sends[i].to] # "closed"

\* C4. Wrong-role offer is dropped: handling an offer whose target identifier is
\* a key of the coordinator table and not of the subordinate table makes no
\* send, delivers nothing and leaves both tables as they were.
C4_WrongRoleOfferDropped ==
    [][(/\ IsMsgStep("offer")
        /\ Has(coordinators, last'.data.id)
        /\ ~Has(subordinates, last'.data.id)) =>
           /\ last'.sends = <<>>
           /\ inbox' = inbox
           /\ subordinates' = subordinates
           /\ coordinators' = coordinators]_vars

\* C4 witness: such an offer was handled while a subordinate was registered
\* under another identifier.
C4_Witness ==
    /\ IsMsg("offer")
    /\ last.data.id \in GeneratedIds
    /\ Has(coordinators, last.data.id)
    /\ ~Has(subordinates, last.data.id)
    /\ readyState[coordinators[last.data.id]] = "open"
    /\ \E k \in GeneratedIds : Has(subordinates, k) /\ readyState[subordinates[k]] = "open"

\* The ice-candidate frames a connection has received, in order of receipt.
IceReceived(ws) == SelectSeq(inbox[ws], LAMBDA m : m.type = "ice-candidate")

\* The ice-candidate frames the relay handled for a target, in order of arrival.
IceHandledFor(ws) == SelectSeq(iceSeen, LAMBDA e : e.target = ws)

\* C5. ICE-candidate ordering: the ice-candidate frames handled while their
\* target identifier resolved to an open connection are all delivered to that
\* connection, each exactly once, in the order in which the relay handled them.
C5_IceCandidateOrder ==
    \A ws \in Conns :
        /\ Len(IceReceived(ws)) = Len(IceHandledFor(ws))
        /\ \A i \in 1..Len(IceHandledFor(ws)) :
               IceReceived(ws)[i] = Forwarded("ice-candidate", IceHandledFor(ws)[i].candidate)

\* C5 witness: two ice-candidate frames with different candidates were handled
\* for the same target identifier, which resolved to the same open connection.
C5_Witness ==
    \E ws \in Conns : \E i, j \in 1..Len(IceHandledFor(ws)) :
        /\ i < j
        /\ IceHandledFor(ws)[i].id = IceHandledFor(ws)[j].id
        /\ IceHandledFor(ws)[i].candidate # IceHandledFor(ws)[j].candidate
        /\ readyState[ws] = "open"

\* C6 as stated: once the subordinate registered under X has closed, every
\* ice-candidate handled afterwards and addressed to X is delivered to no
\* connection, and the relay stays up.
C6_IceAfterDisconnectAlways ==
    [][(IsMsgStep("ice-candidate") /\ last'.data.id \in departed) =>
           (inbox' = inbox /\ relayUp')]_vars

\* C6 as amended: once the subordinate registered under X has closed, and as
\* long as no connection has registered under X since, every ice-candidate
\* addressed to X is delivered to no connection, and the relay stays up.
C6_IceAfterDisconnect ==
    [][(IsMsgStep("ice-candidate") /\ last'.data.id \in released) =>
           (inbox' = inbox /\ relayUp')]_vars

\* C6 witness: an ice-candidate from a still connected coordinator that had
\* registered for identifier X, addressed to X after the subordinate registered
\* under X has closed and nobody has registered under X since.
C6_Witness ==
    /\ IsMsg("ice-candidate")
    /\ last.data.id \in released
    /\ last.data.id \in GeneratedIds
    /\ readyState[last.ws] = "open"
    /\ wsId[last.ws] = last.data.id
    /\ \E ws \in Conns : readyState[ws] = "closed" /\ wsId[ws] = last.data.id

C8_CoordinatorRegisteredReply ==
    IsMsg("register-coordinator") =>
        /\ coordinators[wsId[last.ws]] = last.ws
        /\ last.sends = <<Call(last.ws, Registered(wsId[last.ws]))>>

\* C8 as amended: handling register-coordinator takes the identifier from the
\* frame's id field, records it on the connection, puts the connection into the
\* coordinator table under it, leaves the subordinate table alone and sends
\* nothing to any connection.
C8_CoordinatorRegistration ==
    [][IsMsgStep("register-coordinator") =>
           /\ wsId'[last'.ws] = last'.data.id
           /\ coordinators'[last'.data.id] = last'.ws
           /\ subordinates' = subordinates
           /\ last'.sends = <<>>
           /\ inbox' = inbox]_vars

\* C8 witness: a connection that had another identifier registered as
\* coordinator under an identifier of its choosing.
C8_Witness ==
    /\ IsMsg("register-coordinator")
    /\ last.data.id \in GeneratedIds
    /\ coordinators[last.data.id] = last.ws
    /\ \E k \in Keys : k # last.data.id /\ (subordinates[k] = last.ws \/ coordinators[k] = last.ws)

\* The entries of both tables that hold a connection.
EntriesOf(ws) ==
    {<<"subordinate", k>> : k \in {j \in Keys : subordinates[j] = ws}}
        \cup {<<"coordinator", k>> : k \in {j \in Keys : coordinators[j] = ws}}

\* C9. Single-entry invariant: each connection is the value of at most one
\* entry across the subordinate and coordinator tables together.
C9_SingleEntry == \A ws \in Conns : Cardinality(EntriesOf(ws)) <= 1

\* C10. Write-once entries: an identifier that maps to a connection keeps
\* mapping to it for as long as that connection is open, and no register frame
\* changes the identifier recorded on a connection that is already registered.
C10_WriteOnce ==
    [][/\ \A k \in Keys :
              /\ (Has(subordinates, k) /\ readyState'[subordinates[k]] = "open") =>
                     subordinates'[k] = subordinates[k]
              /\ (Has(coordinators, k) /\ readyState'[coordinators[k]] = "open") =>
                     coordinators'[k] = coordinators[k]
       /\ \A ws \in Conns :
              (EntriesOf(ws) # {} /\ last'.ev = "message") => wsId'[ws] = wsId[ws]]_vars

\* The entries a step removes from the two tables.
RemovedEntries ==
    {<<"subordinate", k>> : k \in {j \in Keys : Has(subordinates, j) /\ ~Has(subordinates', j)}}
        \cup {<<"coordinator", k>> :
                  k \in {j \in Keys : Has(coordinators, j) /\ ~Has(coordinators', j)}}

\* C11. Close frame condition: handling the close of connection c removes at
\* most one entry, every entry it removes maps to c, and every entry of either
\* table that maps to another connection is unchanged (so the tables are
\* unchanged when c holds no entry, as when it never registered).
C11_CloseFrame ==
    [][last'.ev = "close" =>
           /\ Cardinality(RemovedEntries) <= 1
           /\ \A k \in Keys :
                  /\ (Has(subordinates, k) /\ subordinates[k] # last'.ws) =>
                         subordinates'[k] = subordinates[k]
                  /\ (Has(coordinators, k) /\ coordinators[k] # last'.ws) =>
                         coordinators'[k] = coordinators[k]]_vars

\* The target identifier of the frame being handled resolves in no table that
\* applies to the frame's type.
MissStep ==
    \/ IsMsgStep("offer") /\ ~Has(subordinates, last'.data.id)
    \/ IsMsgStep("answer") /\ ~Has(coordinators, last'.data.id)
    \/ /\ IsMsgStep("ice-candidate")
       /\ ~Has(subordinates, last'.data.id)
       /\ ~Has(coordinators, last'.data.id)

\* C12. Silent drop on miss: handling an offer, answer or ice-candidate whose
\* target identifier resolves in no applicable table makes no send, delivers
\* nothing to any connection (the sender included), leaves both tables as they
\* were and leaves every connection, the sender's included, open or closed as
\* it was, with the relay up.
C12_SilentDrop ==
    [][MissStep =>
           /\ last'.sends = <<>>
           /\ inbox' = inbox
           /\ subordinates' = subordinates
           /\ coordinators' = coordinators
           /\ readyState' = readyState
           /\ readyState'[last'.ws] = "open"
           /\ relayUp']_vars

\* C12 witness: a registered subordinate's answer missed (its target is a key
\* of the subordinate table only) while a coordinator was registered elsewhere.
C12_Witness ==
    /\ IsMsg("answer")
    /\ IsSubordinate(last.ws)
    /\ ~Has(coordinators, last.data.id)
    /\ Has(subordinates, last.data.id)
    /\ \E k \in Keys : Has(coordinators, k) /\ readyState[coordinators[k]] = "open"
    /\ last.sends = <<>>

\* C13. Malformed envelope: after a frame that does not parse has been handled,
\* the relay is still up and the sending connection is still open.
C13_MalformedDropped ==
    last.ev = "malformed" => (relayUp /\ readyState[last.ws] = "open")

\* ------------------------------------------------- claims about the page

\* The step gives a frame to an open socket.
Sends == Len(obs'.sent) = Len(obs.sent) + 1

\* The frame that step sends.
SentFrame == obs'.sent[Len(obs'.sent)]

\* The values written to displaySize so far.
Captured == {obs.geometry[i] : i \in 1..Len(obs.geometry)}

\* C14: the signaling channel is opened and register-subordinate is sent
\* only after the display geometry has been captured, and the width and
\* height of that message are the captured geometry.
C14_GeometryBeforeRegistration ==
    [][/\ (page.ws = Null /\ page'.ws # Null) =>
              (page'.displaySize # Null /\ obs'.geometry # <<>>)
       /\ (Sends /\ SentFrame.type = "register-subordinate") =>
              /\ obs.geometry # <<>>
              /\ SentFrame.size = page.displaySize
              /\ SentFrame.size \in Captured]_vars

\* C14 witness: the registration was sent with the captured geometry after
\* the window had taken another size.
C14_Witness ==
    /\ obs.ev = "open"
    /\ obs.sent # <<>>
    /\ obs.sent[Len(obs.sent)].type = "register-subordinate"
    /\ obs.sent[Len(obs.sent)].size = page.displaySize
    /\ page.windowSize # page.displaySize

\* C15: over any interleaving of the load event, the prompt's handlers and
\* fullscreen-change events, the display geometry is written exactly once
\* and never changes afterwards.
C15_GeometryOnce == Len(obs.geometry) <= 1

\* C16: after the first offer, every answer and ice-candidate the
\* page sends is addressed to the sourceId of that first offer.
C16_FirstOfferDestination ==
    \A i \in 1..Len(obs.sent) :
        obs.sent[i].type \in {"answer", "ice-candidate"} =>
            /\ obs.offersSeen # <<>>
            /\ obs.sent[i].targetId = obs.offersSeen[1]

\* The offers whose negotiation succeeds in the step.
Succeeding == obs'.answered \ obs.answered

\* The answers already sent for offer n.
AnswersFor(n) ==
    {i \in 1..Len(obs.sent) : obs.sent[i].type = "answer" /\ obs.sent[i].offer = n}

\* C17: when the page, having received registered with identifier S, handles
\* an offer with sourceId C and the negotiation succeeds, it emits exactly
\* one answer for that offer, with targetId C and sourceId S.
C17_AnswerAddressing ==
    [][\A n \in Succeeding :
           (page.myId # Undefined /\ page.ws = "open") =>
               /\ Sends
               /\ SentFrame = PageFrame("answer", obs.offersSeen[n], page.myId, Null, n)
               /\ AnswersFor(n) = {}]_vars

\* The offers whose negotiation fails in the step.
Failing == obs'.failed \ obs.failed

\* C18: when setting the remote description, creating the answer or setting
\* the local description fails, the error is caught, no answer is ever sent
\* for that offer, its handling is not retried, and the page keeps its
\* peer connection, its identifiers and its socket.
C18_NegotiationFailureStalls ==
    [][/\ \A n \in obs'.failed :
              /\ ~\E i \in 1..Len(obs'.sent) :
                     obs'.sent[i].type = "answer" /\ obs'.sent[i].offer = n
              /\ ~\E t \in page'.offers : t.n = n
       /\ Failing # {} =>
              /\ ~page'.uncaught
              /\ obs'.sent = obs.sent
              /\ page'.peerConnection = page.peerConnection
              /\ page'.peerConnection # NoPc
              /\ page'.ws = page.ws
              /\ page'.myId = page.myId
              /\ page'.coordinatorId = page.coordinatorId]_vars

\* C18 witness: a negotiation just failed on an open socket.
C18_Witness ==
    /\ obs.ev = "failed"
    /\ obs.failed # {}
    /\ page.ws = "open"
    /\ page.peerConnection # NoPc
    /\ \A n \in obs.failed : ~\E t \in page.offers : t.n = n

\* The step handles an inbound ice-candidate.
IceCandidateStep == obs'.ev = "ice-candidate" /\ obs'.steps = obs.steps + 1

\* No remote description is set on the page's peer connection (if any).
NoRemoteDescription ==
    page.peerConnection = NoPc \/ page.peerConnection \notin page.remoteSet

\* C19: an ice-candidate that arrives before a remote description is set is
\* ignored or its failure is caught: no error leaves the message handler
\* and the session state does not change.
C19_EarlyIceCandidate ==
    [][(IceCandidateStep /\ NoRemoteDescription) =>
           /\ page' = page
           /\ ~page'.uncaught
           /\ obs' = [obs EXCEPT !.steps = obs'.steps, !.ev = obs'.ev]]_vars

\* C19 witness: an ice-candidate was handled while an offer handler still
\* awaited setRemoteDescription().
C19_Witness ==
    /\ obs.ev = "ice-candidate"
    /\ page.peerConnection # NoPc
    /\ page.peerConnection \notin page.remoteSet
    /\ \E t \in page.offers : t.stage = "remote" /\ t.on = page.peerConnection
    /\ ~page.uncaught

\* C20: the handling of one message never interleaves with another's: while
\* an offer is being negotiated, the global peer connection is the one
\* created for that offer, and each of its steps runs on it.
C20_NonOverlapping ==
    \A t \in page.offers : page.peerConnection = t.pc /\ t.on = t.pc

\* The step is the page reloading.
ReloadStep == obs'.ev = "reload" /\ obs'.steps = obs.steps + 1

\* The registrations sent so far.
Registrations ==
    {i \in 1..Len(obs.sent) : obs.sent[i].type = "register-subordinate"}

\* C21: a close of the signaling transport leaves the page disconnected,
\* and from then on it opens no new signaling channel and sends no other
\* register-subordinate until the page is reloaded.
C21_NoReconnection ==
    [][/\ (page.ws \in {"connecting", "open"} /\ obs'.ev = "close"
              /\ obs'.steps = obs.steps + 1) => page'.ws = "closed"
       /\ (page.ws = "closed" /\ ~ReloadStep) =>
              /\ page'.ws = "closed"
              /\ obs'.sockets = obs.sockets
              /\ ~(Sends /\ SentFrame.type = "register-subordinate")]_vars

\* C21 witness: the fullscreen-complete path ran to its end after the close
\* and the page is still disconnected, with the one socket it ever made.
C21_Witness ==
    /\ page.ws = "closed"
    /\ obs.ev = "timeout"
    /\ obs.sockets = 1
    /\ Len(obs.geometry) >= 2

\* C25: however often and in whatever interleaving the fullscreen-complete
\* path runs, one page load creates at most one signaling channel and sends
\* at most one register-subordinate.
C25_OneRegistration ==
    /\ obs.sockets <= 1
    /\ Cardinality(Registrations) <= 1

\* C25 witness: the fullscreen-complete path ran twice, the second time
\* with the socket open, and there is one socket and one registration.
C25_Witness ==
    /\ obs.ev = "timeout"
    /\ Len(obs.geometry) >= 2
    /\ page.ws = "open"
    /\ obs.sockets = 1
    /\ Cardinality(Registrations) = 1

\* ---------------------------------------------- more claims about the relay

\* C22: once the close of a connection has been processed no identifier of
\* either table maps to it: every entry maps to a connection whose
\* transport is still open.
C22_NoEntryForClosed ==
    \A k \in Keys :
        /\ Has(subordinates, k) => readyState[subordinates[k]] = "open"
        /\ Has(coordinators, k) => readyState[coordinators[k]] = "open"

\* The step makes a send to the connection.
SendsTo(ws) == \E i \in 1..Len(last'.sends) : last'.sends[i].to = ws

\* C23: an ice-candidate addressed to an identifier held by a registered
\* coordinator is delivered to that coordinator's connection, and one
\* addressed to an identifier held by a registered subordinate to that
\* subordinate's connection, also when the identifier is a key of both
\* tables (holders with an open transport).
C23_IceCandidateDestination ==
    [][IsMsgStep("ice-candidate") =>
           /\ (Has(coordinators, last'.data.id)
                   /\ readyState[coordinators[last'.data.id]] = "open") =>
                  SendsTo(coordinators[last'.data.id])
           /\ (Has(subordinates, last'.data.id)
                   /\ readyState[subordinates[last'.data.id]] = "open") =>
                  SendsTo(subordinates[last'.data.id])]_vars

\* The frames the step appends to a connection's inbox.
Delivered(ws) == SubSeq(inbox'[ws], Len(inbox[ws]) + 1, Len(inbox'[ws]))

\* The connection an identifier resolves to for a frame type, before the step.
Resolves(type, id) ==
    IF type = "offer" THEN subordinates[id]
    ELSE IF type = "answer" THEN coordinators[id]
    ELSE IF Has(subordinates, id) THEN subordinates[id] ELSE coordinators[id]

\* C24: undeliverable messages are not queued: every delivery of an offer,
\* answer or ice-candidate happens in the step that handles the message
\* that caused it, to the connection its target identifier resolves to at
\* that moment; a message whose target does not resolve is delivered in no
\* later step, whoever registers afterwards.
C24_NoQueueing ==
    [][\A ws \in Conns :
           /\ Len(inbox'[ws]) >= Len(inbox[ws])
           /\ SubSeq(inbox'[ws], 1, Len(inbox[ws])) = inbox[ws]
           /\ \A i \in 1..Len(Delivered(ws)) :
                  Delivered(ws)[i].type \in {"offer", "answer", "ice-candidate"} =>
                      /\ IsMsgStep(Delivered(ws)[i].type)
                      /\ Delivered(ws)[i].payload = last'.data.payload
                      /\ Resolves(last'.data.type, last'.data.id) = ws
                      /\ Len(Delivered(ws)) = 1]_vars

\* C24 witness: an offer whose target did not resolve was dropped, no inbox
\* holds an offer, and a connection that can still register is open.
C24_Witness ==
    /\ IsMsg("offer")
    /\ ~Has(subordinates, last.data.id)
    /\ last.sends = <<>>
    /\ \A ws \in Conns : \A i \in 1..Len(inbox[ws]) : inbox[ws][i].type # "offer"
    /\ \E ws \in Conns : readyState[ws] = "open" /\ wsId[ws] = Undefined
    /\ nEvents < MaxEvents

\* C26: the relay never delivers a forwarded offer, answer or ice-candidate
\* to the connection that sent it.
C26_NoReflection ==
    (last.ev = "message" /\ last.data.type \in {"offer", "answer", "ice-candidate"}) =>
        \A i \in 1..Len(last.sends) : last.sends[i].to # last.ws

=============================================================================
